---- MODULE Spec2Model ----
(***************************************************************************)
(* RenderDown: the markdown-to-HTML conversion pipeline of                 *)
(* src/markdown-parser.js (class MarkdownParser).                          *)
(*                                                                         *)
(* Text is a sequence of one-character strings.  Every regular expression  *)
(* of the source is transcribed as a pattern tree and run by a             *)
(* backtracking matcher with the priorities of the JavaScript engine       *)
(* (greedy and lazy quantifiers, ordered alternation, capture groups,      *)
(* back-references, one-character look-around, multi-line anchors).        *)
(***************************************************************************)
EXTENDS Integers, Sequences, FiniteSets, TLC

(***************************************************************************)
(* Character classes                                                       *)
(***************************************************************************)
Digit == {"0", "1", "2", "3", "4", "5", "6", "7", "8", "9"}
Lower == {"a", "b", "c", "d", "e", "f", "g", "h", "i", "j", "k", "l", "m",
          "n", "o", "p", "q", "r", "s", "t", "u", "v", "w", "x", "y", "z"}
Upper == {"A", "B", "C", "D", "E", "F", "G", "H", "I", "J", "K", "L", "M",
          "N", "O", "P", "Q", "R", "S", "T", "U", "V", "W", "X", "Y", "Z"}
Letter == Lower \cup Upper
\* \w
WordCh == Letter \cup Digit \cup {"_"}
\* \s (the white space that the input alphabet can hold)
SpaceCh == {" ", "\t", "\n", "\r"}
\* the characters "." does not match
LineEnd == {"\n", "\r"}
\* the character ` (a string of the module cannot hold it: this value stands
\* for it wherever the text holds one)
BackTick == "BACKTICK"

\* a string as the sequence of its characters
Chars(str) == [k \in 1..Len(str) |-> SubSeq(str, k, k)]

(***************************************************************************)
(* Pattern trees                                                           *)
(***************************************************************************)
In(S) == [t |-> "in", s |-> S]
NotIn(S) == [t |-> "notin", s |-> S]
Cat(l) == [t |-> "cat", l |-> l]
Alt(l) == [t |-> "alt", l |-> l]
Rep(r, lo, hi, lazy) == [t |-> "rep", r |-> r, lo |-> lo, hi |-> hi, lazy |-> lazy]
Grp(n, r) == [t |-> "grp", n |-> n, r |-> r]
Ref(n) == [t |-> "ref", n |-> n]
\* ^ and $; m is the regular expression's m flag
Bol(m) == [t |-> "bol", m |-> m]
Eol(m) == [t |-> "eol", m |-> m]
\* (?<!x) and (?!x) for a one-character class x
NotBehind(S) == [t |-> "nlb", s |-> S]
NotAhead(S) == [t |-> "nla", s |-> S]
\* \b
WordB == [t |-> "wb"]
\* no upper limit of a quantifier
Inf == 0 - 1
Star(r) == Rep(r, 0, Inf, FALSE)
Plus(r) == Rep(r, 1, Inf, FALSE)
Opt(r) == Rep(r, 0, 1, FALSE)
LazyStar(r) == Rep(r, 0, Inf, TRUE)
LazyPlus(r) == Rep(r, 1, Inf, TRUE)
Lit(x) == Cat([k \in 1..Len(x) |-> In({x[k]})])
AnyCh == NotIn({})
Dot == NotIn(LineEnd)
Sp == In(SpaceCh)

(***************************************************************************)
(* The matcher.  M(re, s, i, c) is the sequence, in the engine's order of  *)
(* preference, of the ways re matches s at position i with the captures c; *)
(* each is [e |-> position after the match, c |-> captures].  A capture is *)
(* <<first, last + 1>>, <<0, 0>> when the group did not take part.         *)
(***************************************************************************)
NGroups == 4
NoCaps == [n \in 1..NGroups |-> <<0, 0>>]

MinOf(S) == CHOOSE x \in S : \A y \in S : x <= y
MaxOf(S) == CHOOSE x \in S : \A y \in S : x >= y

RECURSIVE FlattenRange(_, _, _)
\* ss[lo] \o ... \o ss[hi]
FlattenRange(ss, lo, hi) ==
    IF lo > hi THEN <<>>
    ELSE IF lo = hi THEN ss[lo]
    ELSE LET mid == (lo + hi) \div 2
         IN  FlattenRange(ss, lo, mid) \o FlattenRange(ss, mid + 1, hi)
\* the concatenation of a sequence of sequences
Flatten(ss) == FlattenRange(ss, 1, Len(ss))

RECURSIVE M(_, _, _, _)
RECURSIVE MCat(_, _, _, _, _)
RECURSIVE MAlt(_, _, _, _, _)
RECURSIVE MRep(_, _, _, _, _)
RECURSIVE ThenRep(_, _, _, _, _, _)

IsWord(s, i) == i >= 1 /\ i <= Len(s) /\ s[i] \in WordCh

RefLen(c, n) == c[n][2] - c[n][1]

RefMatches(s, i, c, n) ==
    /\ i + RefLen(c, n) - 1 <= Len(s)
    /\ \A k \in 0..(RefLen(c, n) - 1) : s[i + k] = s[c[n][1] + k]

\* a one-character pattern
IsClass(re) == re.t \in {"in", "notin"}
Has(re, ch) == IF re.t = "in" THEN ch \in re.s ELSE ch \notin re.s

\* the length of the longest run of characters of the class cl from s[i]
Run(cl, s, i) ==
    CHOOSE k \in 0..(Len(s) - i + 1) :
        /\ \A j \in 0..(k - 1) : Has(cl, s[i + j])
        /\ i + k > Len(s) \/ ~Has(cl, s[i + k])

\* a quantified one-character class: the longest repetition first when
\* greedy, the shortest first when lazy
MRepClass(re, s, i, c) ==
    LET run == Run(re.r, s, i)
        most == IF re.hi # Inf /\ re.hi < run THEN re.hi ELSE run
    IN  IF most < re.lo THEN <<>>
        ELSE [j \in 1..(most - re.lo + 1) |->
                 [e |-> IF re.lazy THEN i + re.lo + (j - 1) ELSE i + most - (j - 1),
                  c |-> c]]

M(re, s, i, c) ==
    CASE re.t = "in" ->
           IF i <= Len(s) /\ s[i] \in re.s THEN <<[e |-> i + 1, c |-> c]>> ELSE <<>>
      [] re.t = "notin" ->
           IF i <= Len(s) /\ s[i] \notin re.s THEN <<[e |-> i + 1, c |-> c]>> ELSE <<>>
      [] re.t = "cat" -> MCat(re.l, 1, s, i, c)
      [] re.t = "alt" -> MAlt(re.l, 1, s, i, c)
      [] re.t = "rep" -> IF IsClass(re.r) THEN MRepClass(re, s, i, c)
                         ELSE MRep(re, 0, s, i, c)
      [] re.t = "grp" ->
           LET rs == M(re.r, s, i, c)
           IN  [k \in 1..Len(rs) |->
                   [e |-> rs[k].e, c |-> [rs[k].c EXCEPT ![re.n] = <<i, rs[k].e>>]]]
      [] re.t = "ref" ->
           IF RefMatches(s, i, c, re.n) THEN <<[e |-> i + RefLen(c, re.n), c |-> c]>>
           ELSE <<>>
      [] re.t = "bol" ->
           IF i = 1 \/ (re.m /\ s[i - 1] = "\n") THEN <<[e |-> i, c |-> c]>> ELSE <<>>
      [] re.t = "eol" ->
           IF i = Len(s) + 1 \/ (re.m /\ s[i] = "\n") THEN <<[e |-> i, c |-> c]>> ELSE <<>>
      [] re.t = "nlb" ->
           IF i = 1 \/ s[i - 1] \notin re.s THEN <<[e |-> i, c |-> c]>> ELSE <<>>
      [] re.t = "nla" ->
           IF i > Len(s) \/ s[i] \notin re.s THEN <<[e |-> i, c |-> c]>> ELSE <<>>
      [] re.t = "wb" ->
           IF IsWord(s, i - 1) # IsWord(s, i) THEN <<[e |-> i, c |-> c]>> ELSE <<>>

\* l[k..] after l[1..k-1] has matched up to i: each way l[k] matches,
\* followed by each way the rest does
MCat(l, k, s, i, c) ==
    IF k > Len(l) THEN <<[e |-> i, c |-> c]>>
    ELSE LET rs == M(l[k], s, i, c)
         IN  Flatten([j \in 1..Len(rs) |-> MCat(l, k + 1, s, rs[j].e, rs[j].c)])

MAlt(l, k, s, i, c) ==
    IF k > Len(l) THEN <<>>
    ELSE M(l[k], s, i, c) \o MAlt(l, k + 1, s, i, c)

\* one more iteration of re.r after each of rs[j..]; an iteration that
\* matches the empty string is not repeated
ThenRep(rs, j, re, n, s, i) ==
    IF j > Len(rs) THEN <<>>
    ELSE (IF rs[j].e > i THEN MRep(re, n + 1, s, rs[j].e, rs[j].c) ELSE <<>>)
         \o ThenRep(rs, j + 1, re, n, s, i)

\* n iterations of re.r are done
MRep(re, n, s, i, c) ==
    LET more == IF re.hi # Inf /\ n >= re.hi THEN <<>>
                ELSE ThenRep(M(re.r, s, i, c), 1, re, n, s, i)
        stop == IF n >= re.lo THEN <<[e |-> i, c |-> c]>> ELSE <<>>
    IN  IF re.lazy THEN stop \o more ELSE more \o stop

(***************************************************************************)
(* RegExp.prototype.exec and the g flag                                    *)
(***************************************************************************)
\* the positions of s where re matches
Hits(re, s) == {i \in 1..(Len(s) + 1) : M(re, s, i, NoCaps) # <<>>}

\* the match of re at position st: the engine's first choice
MatchAt(re, s, st) ==
    LET r == M(re, s, st, NoCaps)[1] IN [st |-> st, e |-> r.e, c |-> r.c]

\* RegExp.prototype.test
Test(re, s) == Hits(re, s) # {}

RECURSIVE MatchesFrom(_, _, _, _)
\* the successive matches of a g-flagged expression at the positions hits,
\* from position from on
MatchesFrom(re, s, hits, from) ==
    LET later == {i \in hits : i >= from}
    IN  IF later = {} THEN <<>>
        ELSE LET m == MatchAt(re, s, MinOf(later))
             IN  <<m>> \o MatchesFrom(re, s, hits, IF m.e > m.st THEN m.e ELSE m.e + 1)

\* the matches a replace call works on: all of them with the g flag, the
\* first one without
Global(re, s) == MatchesFrom(re, s, Hits(re, s), 1)
First(re, s) ==
    LET hits == Hits(re, s) IN IF hits = {} THEN <<>> ELSE <<MatchAt(re, s, MinOf(hits))>>

\* the text of capture n of match m ("" when the group did not take part)
Cap(s, m, n) == SubSeq(s, m.c[n][1], m.c[n][2] - 1)
\* the matched text
Whole(s, m) == SubSeq(s, m.st, m.e - 1)

\* String.prototype.replace: s with the text of each match ms[j] replaced by
\* by[j]
Replace(s, ms, by) ==
    LET count == Len(ms)
        gap(j) == SubSeq(s, IF j = 1 THEN 1 ELSE ms[j - 1].e, ms[j].st - 1)
    IN  Flatten([j \in 1..count |-> gap(j) \o by[j]])
        \o SubSeq(s, IF count = 0 THEN 1 ELSE ms[count].e, Len(s))

\* replace(re, r) with the g flag, for a replacement r that does not depend
\* on the match
ReplaceEach(s, ms, r) == Replace(s, ms, [j \in 1..Len(ms) |-> r])
ReplaceWith(re, s, r) == ReplaceEach(s, Global(re, s), r)
\* replace(re, open + '$n' + close) for the matches ms, and with the g flag
ReplaceWithCap(ms, s, n, open, close) ==
    Replace(s, ms, [j \in 1..Len(ms) |-> open \o Cap(s, ms[j], n) \o close])
ReplaceCap(re, s, n, open, close) == ReplaceWithCap(Global(re, s), s, n, open, close)
\* String.prototype.trim
Trim(s) ==
    LET solid == {i \in 1..Len(s) : s[i] \notin SpaceCh}
    IN  IF solid = {} THEN <<>> ELSE SubSeq(s, MinOf(solid), MaxOf(solid))

\* String(n) for a small non-negative integer
DigitOf(n) == <<"0", "1", "2", "3", "4", "5", "6", "7", "8", "9">>[n + 1]
RECURSIVE ToDecimal(_)
ToDecimal(n) == IF n < 10 THEN <<DigitOf(n)>> ELSE ToDecimal(n \div 10) \o <<DigitOf(n % 10)>>

(***************************************************************************)
(* Text the converter emits                                                *)
(***************************************************************************)
\* <hN> and </hN>
HOpen(n) == <<"<", "h", DigitOf(n), ">">>
HClose(n) == <<"<", "/", "h", DigitOf(n), ">">>
\* <ul>, </ul>, <ol>, </ol> for a list type "ul" or "ol"
TypeName(type) == IF type = "ol" THEN <<"o", "l">> ELSE <<"u", "l">>
ListOpen(type) == <<"<">> \o TypeName(type) \o <<">">>
ListClose(type) == <<"<", "/">> \o TypeName(type) \o <<">">>

(***************************************************************************)
(* escapeHtml: the serialisation of a text node                            *)
(***************************************************************************)
EscapeChar(ch) ==
    CASE ch = "&" -> <<"&", "a", "m", "p", ";">>
      [] ch = "<" -> <<"&", "l", "t", ";">>
      [] ch = ">" -> <<"&", "g", "t", ";">>
      [] OTHER -> <<ch>>

escapeHtml(text) == Flatten([k \in 1..Len(text) |-> EscapeChar(text[k])])

(***************************************************************************)
(* normalizeContent                                                        *)
(***************************************************************************)
QuoteCh == {"\"", "'", BackTick}
\* /^["'`]([\s\S]*?)["'`]$/s
ReSurroundingQuotes ==
    Cat(<<Bol(FALSE), In(QuoteCh), Grp(1, LazyStar(AnyCh)), In(QuoteCh), Eol(FALSE)>>)
\* /\r\n/g and /\r/g
ReCrLf == Lit(<<"\r", "\n">>)
ReCr == Lit(<<"\r">>)
\* /[ \t]+$/gm
ReTrailingSpaces == Cat(<<Plus(In({" ", "\t"})), Eol(TRUE)>>)

normalizeContent(text) ==
    LET t1 == ReplaceWithCap(First(ReSurroundingQuotes, text), text, 1, <<>>, <<>>)
        t2 == ReplaceWith(ReCrLf, t1, <<"\n">>)
        t3 == ReplaceWith(ReCr, t2, <<"\n">>)
    IN  ReplaceWith(ReTrailingSpaces, t3, <<>>)

(***************************************************************************)
(* protectCodeBlocks: the text with placeholders, and the two stores       *)
(***************************************************************************)
\* /```([\s\S]*?)```/g
ReFence ==
    Cat(<<Lit(<<BackTick, BackTick, BackTick>>), Grp(1, LazyStar(AnyCh)),
          Lit(<<BackTick, BackTick, BackTick>>)>>)
\* /`([^`]+)`/g
ReInlineCode == Cat(<<In({BackTick}), Grp(1, Plus(NotIn({BackTick}))), In({BackTick})>>)

\* `__CODE_BLOCK_${index}__` and `__INLINE_CODE_${index}__`
CodeBlockPlaceholder(index) == Chars("__CODE_BLOCK_") \o ToDecimal(index) \o Chars("__")
InlineCodePlaceholder(index) == Chars("__INLINE_CODE_") \o ToDecimal(index) \o Chars("__")

\* the first replace call: each fence gives way to its key and its rendering
\* is pushed to codeBlocks
ProtectFences(text, fences) ==
    [text |-> Replace(text, fences, [j \in 1..Len(fences) |-> CodeBlockPlaceholder(j - 1)]),
     codeBlocks |-> [k \in 1..Len(fences) |->
                        Chars("<pre><code>") \o escapeHtml(Cap(text, fences[k], 1))
                        \o Chars("</code></pre>")]]
\* the second replace call, on the text the first one left
ProtectSpans(done, spans) ==
    [text |-> Replace(done.text, spans,
                      [j \in 1..Len(spans) |-> InlineCodePlaceholder(j - 1)]),
     codeBlocks |-> done.codeBlocks,
     inlineCode |-> [k \in 1..Len(spans) |->
                        Chars("<code>") \o escapeHtml(Cap(done.text, spans[k], 1))
                        \o Chars("</code>")]]

protectCodeBlocks(text) ==
    LET done == ProtectFences(text, Global(ReFence, text))
    IN  ProtectSpans(done, Global(ReInlineCode, done.text))

(***************************************************************************)
(* processHeaders                                                          *)
(***************************************************************************)
Hash == In({"#"})
\* /^\s*(#{1,6})\s*(.+?)\s*#*\s*$/gm
ReAtx ==
    Cat(<<Bol(TRUE), Star(Sp), Grp(1, Rep(Hash, 1, 6, FALSE)), Star(Sp),
          Grp(2, LazyPlus(Dot)), Star(Sp), Star(Hash), Star(Sp), Eol(TRUE)>>)
\* /^\s*[\*\-\+]\s*(#{1,6})\s*(.+?)\s*$/gm
ReBulletAtx ==
    Cat(<<Bol(TRUE), Star(Sp), In({"*", "-", "+"}), Star(Sp),
          Grp(1, Rep(Hash, 1, 6, FALSE)), Star(Sp), Grp(2, LazyPlus(Dot)), Star(Sp),
          Eol(TRUE)>>)
\* /^(.+)\n\s*=+\s*$/gm and /^(.+)\n\s*-+\s*$/gm
ReSetext(ch) ==
    Cat(<<Bol(TRUE), Grp(1, Plus(Dot)), In({"\n"}), Star(Sp), Plus(In({ch})), Star(Sp),
          Eol(TRUE)>>)

\* `<h${level}>${content.trim()}</h${level}>`
HeaderOf(s, m) ==
    LET level == Len(Cap(s, m, 1))
    IN  HOpen(level) \o Trim(Cap(s, m, 2)) \o HClose(level)

\* replace(re, callback) for the matches ms of one of the two # patterns
WithHeaders(s, ms) == Replace(s, ms, [j \in 1..Len(ms) |-> HeaderOf(s, ms[j])])

processHeaders(text) ==
    LET t1 == WithHeaders(text, Global(ReAtx, text))
        t2 == WithHeaders(t1, Global(ReBulletAtx, t1))
        t3 == ReplaceCap(ReSetext("="), t2, 1, HOpen(1), HClose(1))
    IN  ReplaceCap(ReSetext("-"), t3, 1, HOpen(2), HClose(2))

(***************************************************************************)
(* processTextFormatting                                                   *)
(***************************************************************************)
\* /""([^"]+)""/g
ReDoubledQuotes ==
    Cat(<<Lit(<<"\"", "\"">>), Grp(1, Plus(NotIn({"\""}))), Lit(<<"\"", "\"">>)>>)
\* /(\*\*|__)([^\s][^\n]*?[^\s]|[^\s])(\1)/g
ReBold ==
    Cat(<<Grp(1, Alt(<<Lit(<<"*", "*">>), Lit(<<"_", "_">>)>>)),
          Grp(2, Alt(<<Cat(<<NotIn(SpaceCh), LazyStar(NotIn({"\n"})), NotIn(SpaceCh)>>),
                       NotIn(SpaceCh)>>)),
          Grp(3, Ref(1))>>)
\* the four expressions of the bold callback, for the delimiter d and the
\* guarded class g:  /(?<!g)(d)([^d\n]+)(d)(?!g)/g
ReInnerEm(d, g) ==
    Cat(<<NotBehind(g), Grp(1, In({d})), Grp(2, Plus(NotIn({d, "\n"}))), Grp(3, In({d})),
          NotAhead(g)>>)
\* /(?<!\w)(\*|_)([^*_\s][^*_]*[^*_\s]|\S)\1(?!\w)/g
ReItalic ==
    Cat(<<NotBehind(WordCh), Grp(1, Alt(<<In({"*"}), In({"_"})>>)),
          Grp(2, Alt(<<Cat(<<NotIn({"*", "_"} \cup SpaceCh), Star(NotIn({"*", "_"})),
                             NotIn({"*", "_"} \cup SpaceCh)>>),
                       NotIn(SpaceCh)>>)),
          Ref(1), NotAhead(WordCh)>>)
\* /~~([^~]+)~~/g
ReStrike == Cat(<<Lit(<<"~", "~">>), Grp(1, Plus(NotIn({"~"}))), Lit(<<"~", "~">>)>>)

\* replace(re, '<em>$2</em>')
Emphasise(re, s) == ReplaceCap(re, s, 2, Chars("<em>"), Chars("</em>"))

\* the callback of the bold replacement
BoldOf(delimiter, content) ==
    Chars("<strong>")
    \o (IF delimiter = <<"*", "*">>
        THEN Emphasise(ReInnerEm("_", WordCh), Emphasise(ReInnerEm("*", {"*"}), content))
        ELSE Emphasise(ReInnerEm("_", {"_"}), Emphasise(ReInnerEm("*", WordCh), content)))
    \o Chars("</strong>")
\* replace(re, callback) for the matches ms of the bold pattern
WithBolds(s, ms) ==
    Replace(s, ms, [j \in 1..Len(ms) |-> BoldOf(Cap(s, ms[j], 1), Cap(s, ms[j], 2))])

processTextFormatting(text) ==
    LET t1 == ReplaceCap(ReDoubledQuotes, text, 1, <<"\"", "*">>, <<"*", "\"">>)
        t2 == WithBolds(t1, Global(ReBold, t1))
        t3 == Emphasise(ReItalic, t2)
    IN  ReplaceCap(ReStrike, t3, 1, Chars("<del>"), Chars("</del>"))

(***************************************************************************)
(* processBlockquotes                                                      *)
(***************************************************************************)
\* /^\s*>\s*(.+)$/gm
ReQuoteLine ==
    Cat(<<Bol(TRUE), Star(Sp), In({">"}), Star(Sp), Grp(1, Plus(Dot)), Eol(TRUE)>>)
\* /(<\/blockquote>\s*<blockquote>)/g
ReQuoteSeam ==
    Grp(1, Cat(<<Lit(Chars("</blockquote>")), Star(Sp), Lit(Chars("<blockquote>"))>>))

processBlockquotes(text) ==
    LET t1 == ReplaceCap(ReQuoteLine, text, 1, Chars("<blockquote>"), Chars("</blockquote>"))
    IN  ReplaceWith(ReQuoteSeam, t1, Chars("<br>"))

(***************************************************************************)
(* processHorizontalRules                                                  *)
(***************************************************************************)
\* /^\s*(-{3,}|\*{3,}|_{3,})\s*$/gm
ReRule ==
    Cat(<<Bol(TRUE), Star(Sp),
          Grp(1, Alt(<<Rep(In({"-"}), 3, Inf, FALSE), Rep(In({"*"}), 3, Inf, FALSE),
                       Rep(In({"_"}), 3, Inf, FALSE)>>)),
          Star(Sp), Eol(TRUE)>>)

processHorizontalRules(text) == ReplaceWith(ReRule, text, Chars("<hr>"))

(***************************************************************************)
(* processLinksAndImages                                                   *)
(***************************************************************************)
\* /!\[([^\]]*)\]\(([^)]+)\)/g
ReImage ==
    Cat(<<Lit(<<"!", "[">>), Grp(1, Star(NotIn({"]"}))), Lit(<<"]", "(">>),
          Grp(2, Plus(NotIn({")"}))), In({")"})>>)
\* /\[([^\]]+)\]\(([^)]+)\)/g
ReLink ==
    Cat(<<In({"["}), Grp(1, Plus(NotIn({"]"}))), Lit(<<"]", "(">>),
          Grp(2, Plus(NotIn({")"}))), In({")"})>>)
\* /(?<!["'>])\bhttps?:\/\/[^\s<>]+/g
ReAutoLink ==
    Cat(<<NotBehind({"\"", "'", ">"}), WordB, Lit(<<"h", "t", "t", "p">>), Opt(In({"s"})),
          Lit(<<":", "/", "/">>), Plus(NotIn({"<", ">"} \cup SpaceCh))>>)

\* '<img src="$2" alt="$1">'
ImgOf(s, m) ==
    <<"<", "i", "m", "g", " ", "s", "r", "c", "=", "\"">> \o Cap(s, m, 2)
    \o <<"\"", " ", "a", "l", "t", "=", "\"">> \o Cap(s, m, 1) \o <<"\"", ">">>
\* '<a href="..">..</a>'
AnchorOf(href, body) ==
    <<"<", "a", " ", "h", "r", "e", "f", "=", "\"">> \o href \o <<"\"", ">">> \o body
    \o <<"<", "/", "a", ">">>

\* the three replacements for the matches ms of their patterns
WithImages(s, ms) == Replace(s, ms, [j \in 1..Len(ms) |-> ImgOf(s, ms[j])])
WithLinks(s, ms) ==
    Replace(s, ms, [j \in 1..Len(ms) |-> AnchorOf(Cap(s, ms[j], 2), Cap(s, ms[j], 1))])
WithAutoLinks(s, ms) ==
    Replace(s, ms, [j \in 1..Len(ms) |-> AnchorOf(Whole(s, ms[j]), Whole(s, ms[j]))])

processLinksAndImages(text) ==
    LET t1 == WithImages(text, Global(ReImage, text))
        t2 == WithLinks(t1, Global(ReLink, t1))
    IN  WithAutoLinks(t2, Global(ReAutoLink, t2))

(***************************************************************************)
(* restoreCodeBlocks                                                       *)
(***************************************************************************)
\* the patterns $$, $&, $` and $' of a replacement string
ReDollar == Cat(<<In({"$"}), Grp(1, In({"$", "&", BackTick, "'"}))>>)
\* what String.prototype.replace(string, r) puts in place of the match m of
\* the text s: r with its patterns expanded
Substitution(r, s, m) ==
    LET ps == Global(ReDollar, r)
        expand(p) == CASE Cap(r, p, 1) = <<"$">> -> <<"$">>
                       [] Cap(r, p, 1) = <<"&">> -> Whole(s, m)
                       [] Cap(r, p, 1) = <<BackTick>> -> SubSeq(s, 1, m.st - 1)
                       [] OTHER -> SubSeq(s, m.e, Len(s))
    IN  Replace(r, ps, [j \in 1..Len(ps) |-> expand(ps[j])])

\* text.replace(key, r): the first occurrence of the string key
ReplaceString(text, key, r) ==
    LET ms == First(Lit(key), text)
    IN  Replace(text, ms, [j \in 1..Len(ms) |-> Substitution(r, text, ms[j])])

RECURSIVE RestoreFrom(_, _, _, _)
\* the loop over store[i..]; block tells the two key shapes apart
RestoreFrom(text, store, i, block) ==
    IF i > Len(store) THEN text
    ELSE RestoreFrom(ReplaceString(text,
                                   IF block THEN CodeBlockPlaceholder(i - 1)
                                   ELSE InlineCodePlaceholder(i - 1),
                                   store[i]),
                     store, i + 1, block)

restoreCodeBlocks(text, codeBlocks, inlineCode) ==
    RestoreFrom(RestoreFrom(text, codeBlocks, 1, TRUE), inlineCode, 1, FALSE)

(***************************************************************************)
(* Lines: String.prototype.split('\n') and Array.prototype.join('\n')      *)
(***************************************************************************)
\* the elements of a set of integers in increasing order
Sorted(S) == [k \in 1..Cardinality(S) |->
                 CHOOSE x \in S : Cardinality({y \in S : y < x}) = k - 1]

SplitLines(text) ==
    LET cuts == Sorted({i \in 1..Len(text) : text[i] = "\n"})
        from(k) == IF k = 1 THEN 1 ELSE cuts[k - 1] + 1
        to(k) == IF k > Len(cuts) THEN Len(text) ELSE cuts[k] - 1
    IN  [k \in 1..(Len(cuts) + 1) |-> SubSeq(text, from(k), to(k))]

JoinLines(lines) ==
    Flatten([k \in 1..Len(lines) |-> IF k = 1 THEN lines[k] ELSE <<"\n">> \o lines[k]])

(***************************************************************************)
(* processLists: the marker grammar                                        *)
(***************************************************************************)
RomanCh == {"i", "v", "x", "l", "c", "d", "m", "I", "V", "X", "L", "C", "D", "M"}
Closer == In({".", ")"})
\* [-*+]|\d+[\.\)]|\([0-9]+\)|[a-zA-Z][\.\)]
MarkerAlternatives ==
    <<In({"-", "*", "+"}),
      Cat(<<Plus(In(Digit)), Closer>>),
      Cat(<<In({"("}), Plus(In(Digit)), In({")"})>>),
      Cat(<<In(Letter), Closer>>)>>
\* the same followed by |[ivxlcdm]+[\.\)]|[IVXLCDM]+[\.\)] under the i flag
MarkerAlternativesI ==
    MarkerAlternatives \o <<Cat(<<Plus(In(RomanCh)), Closer>>),
                            Cat(<<Plus(In(RomanCh)), Closer>>)>>
\* /^(\s*)(marker)\s+(\[[ x]\]\s+)?(.*)$/i of the walk
ReListLine ==
    Cat(<<Bol(FALSE), Grp(1, Star(Sp)), Grp(2, Alt(MarkerAlternativesI)), Plus(Sp),
          Opt(Grp(3, Cat(<<In({"["}), In({" ", "x", "X"}), In({"]"}), Plus(Sp)>>))),
          Grp(4, Star(Dot)), Eol(FALSE)>>)
\* /^(\s*)(marker)\s+/i of the pre-scan
RePrescan == Cat(<<Bol(FALSE), Grp(1, Star(Sp)), Grp(2, Alt(MarkerAlternativesI)), Plus(Sp)>>)
\* /^(\s*)([-*+]|\d+[\.\)]|\([0-9]+\)|[a-zA-Z][\.\)])\s+(.*)$/ of the
\* classifier's helpers
ReContextLine ==
    Cat(<<Bol(FALSE), Grp(1, Star(Sp)), Grp(2, Alt(MarkerAlternatives)), Plus(Sp),
          Grp(3, Star(Dot)), Eol(FALSE)>>)
\* /^[-*+]$/
ReUnorderedMarker == Cat(<<Bol(FALSE), In({"-", "*", "+"}), Eol(FALSE)>>)
\* /^\d+[\.\)]$/
ReNumberMarker == Cat(<<Bol(FALSE), Plus(In(Digit)), Closer, Eol(FALSE)>>)
\* /^[a-zA-Z][\.\)]$/
ReLetterMarker == Cat(<<Bol(FALSE), In(Letter), Closer, Eol(FALSE)>>)
\* /^[a-zA-Z0-9][\.\)]$/
ReSingleMarker == Cat(<<Bol(FALSE), In(Letter \cup Digit), Closer, Eol(FALSE)>>)
\* /^(\d+[\.\)]|\([0-9]+\)|[a-zA-Z][\.\)]|[ivxlcdm]+[\.\)]|[IVXLCDM]+[\.\)])$/i
ReOrderedMarker ==
    Cat(<<Bol(FALSE), Grp(1, Alt(SubSeq(MarkerAlternativesI, 2, 6))), Eol(FALSE)>>)
\* /^[A-Z][a-z]*\s+[A-Z]/ and /^[A-Z][a-z]*\.$/
ReNameTwoWords == Cat(<<Bol(FALSE), In(Upper), Star(In(Lower)), Plus(Sp), In(Upper)>>)
ReNameInitial == Cat(<<Bol(FALSE), In(Upper), Star(In(Lower)), In({"."}), Eol(FALSE)>>)
\* /^[A-Z]/
ReCapitalised == Cat(<<Bol(FALSE), In(Upper)>>)
\* /[\.\)]$/
ReCloserAtEnd == Cat(<<Closer, Eol(FALSE)>>)
\* /^[a-zA-Z]$/ and /^\d+$/
ReOneLetter == Cat(<<Bol(FALSE), In(Letter), Eol(FALSE)>>)
ReDigits == Cat(<<Bol(FALSE), Plus(In(Digit)), Eol(FALSE)>>)

\* line.match(re): the match, or NoMatch
NoMatch == [st |-> 0, e |-> 0, c |-> NoCaps]
MatchOf(re, s) == LET ms == First(re, s) IN IF ms = <<>> THEN NoMatch ELSE ms[1]

(***************************************************************************)
(* analyzeIndentationLevels and calculateNestingLevel                      *)
(***************************************************************************)
\* the pre-scan with a pattern that knows the markers -, * and + only
PrescanWidthsOfBullets(lines) ==
    {Len(Cap(lines[k], MatchOf(RePrescan, lines[k]), 1)) :
        k \in {j \in 1..Len(lines) :
                  /\ Test(RePrescan, lines[j])
                  /\ Test(ReUnorderedMarker, Cap(lines[j], MatchOf(RePrescan, lines[j]), 2))}}

\* the keys of indentCounts: the indent widths of the lines the pre-scan matches
PrescanWidths(lines) ==
    {Len(Cap(lines[k], MatchOf(RePrescan, lines[k]), 1)) :
        k \in {j \in 1..Len(lines) : Test(RePrescan, lines[j])}}

\* the keys sorted by (a, b) => b - a
SortedIndentsDescending(widths) ==
    [k \in 1..Cardinality(widths) |-> Sorted(widths)[Cardinality(widths) - k + 1]]

\* sortedIndents: keys sorted by (a, b) => a - b
SortedIndents(widths) == Sorted(widths)

\* levelMap: indent -> index in sortedIndents
analyzeIndentationLevels(lines) ==
    LET sortedIndents == SortedIndents(PrescanWidths(lines))
    IN  [w \in PrescanWidths(lines) |->
            (CHOOSE index \in 1..Len(sortedIndents) : sortedIndents[index] = w) - 1]

IndentStep == 4

calculateNestingLevel(indent, indentLevels) ==
    IF indent \in DOMAIN indentLevels THEN indentLevels[indent]
    ELSE \* the loop keeps the largest known indent in (0, indent]
         LET below == {w \in DOMAIN indentLevels : w <= indent /\ w > 0}
             closestIndent == IF below = {} THEN 0 ELSE MaxOf(below)
             closestLevel == IF below = {} THEN 0 ELSE indentLevels[closestIndent]
         IN  IF indent > closestIndent
             THEN closestLevel + ((indent - closestIndent) \div IndentStep)
             ELSE closestLevel

(***************************************************************************)
(* isActualListItem and its helpers.  Lines are numbered from 1 here, from *)
(* 0 in the source.                                                        *)
(***************************************************************************)
LowerSeq == <<"a", "b", "c", "d", "e", "f", "g", "h", "i", "j", "k", "l", "m",
              "n", "o", "p", "q", "r", "s", "t", "u", "v", "w", "x", "y", "z">>
UpperSeq == <<"A", "B", "C", "D", "E", "F", "G", "H", "I", "J", "K", "L", "M",
              "N", "O", "P", "Q", "R", "S", "T", "U", "V", "W", "X", "Y", "Z">>
\* letter.toLowerCase().charCodeAt(0) - 'a'.charCodeAt(0)
LetterRank(ch) ==
    (CHOOSE k \in 1..26 : LowerSeq[k] = ch \/ UpperSeq[k] = ch) - 1

RECURSIVE ParseInt(_)
\* parseInt of a string of digits
ParseInt(ds) ==
    IF ds = <<>> THEN 0
    ELSE 10 * ParseInt(SubSeq(ds, 1, Len(ds) - 1))
         + (CHOOSE d \in 0..9 : DigitOf(d) = ds[Len(ds)])

Abs(x) == IF x < 0 THEN 0 - x ELSE x

checkRange == 3
IndentTolerance == 2
ShortContent == 20

\* areRelatedMarkers
areRelatedMarkers(marker1, marker2) ==
    \/ Test(ReUnorderedMarker, marker1) /\ Test(ReUnorderedMarker, marker2)
    \/ Test(ReNumberMarker, marker1) /\ Test(ReNumberMarker, marker2)
    \/ Test(ReLetterMarker, marker1) /\ Test(ReLetterMarker, marker2)

\* the lines of the helpers' loops that match and sit at a similar indent
SimilarLine(lines, k, indent) ==
    /\ Test(ReContextLine, lines[k])
    /\ Abs(Len(Cap(lines[k], MatchOf(ReContextLine, lines[k]), 1)) - indent)
           <= IndentTolerance
MarkerAt(lines, k) == Cap(lines[k], MatchOf(ReContextLine, lines[k]), 2)

\* checkListContext: {hasContext, nearbyItems}
checkListContext(lines, currentIndex, marker, indent) ==
    LET window == {k \in 1..Len(lines) :
                      /\ k >= currentIndex - checkRange
                      /\ k <= currentIndex + checkRange
                      /\ k # currentIndex}
        nearby == {k \in window : SimilarLine(lines, k, indent)}
    IN  [hasContext |-> \E k \in nearby : areRelatedMarkers(marker, MarkerAt(lines, k)),
         nearbyItems |-> Cardinality(nearby)]

\* marker.replace(/[\.\)]$/, '')
StripCloser(marker) == ReplaceWithCap(First(ReCloserAtEnd, marker), marker, 1, <<>>, <<>>)

\* verifyAlphabeticalSequence.  The backward loop returns true as soon as
\* every required letter is found, so it returns true exactly when it runs
\* at least once and the earlier lines hold all of them.
verifyAlphabeticalSequence(lines, currentIndex, currentLetter, indent) ==
    LET required == 0..(LetterRank(currentLetter) - 1)
        found == {LetterRank(StripCloser(MarkerAt(lines, k))[1]) :
                    k \in {j \in 1..(currentIndex - 1) :
                              /\ SimilarLine(lines, j, indent)
                              /\ Test(ReOneLetter, StripCloser(MarkerAt(lines, j)))}}
    IN  \/ LetterRank(currentLetter) = 0
        \/ currentIndex > 1 /\ required \subseteq found

\* verifyNumericalSequence, in the same way
verifyNumericalSequence(lines, currentIndex, currentNumber, indent) ==
    LET required == 1..(currentNumber - 1)
        found == {ParseInt(StripCloser(MarkerAt(lines, k))) :
                    k \in {j \in 1..(currentIndex - 1) :
                              /\ SimilarLine(lines, j, indent)
                              /\ Test(ReDigits, StripCloser(MarkerAt(lines, j)))}}
    IN  \/ currentNumber = 1
        \/ currentIndex > 1 /\ required \subseteq found

\* the two branches of hasSequentialMarkers for the marker without its closer
SequenceOf(lines, currentIndex, baseChar, indent) ==
    IF Test(ReOneLetter, baseChar)
    THEN verifyAlphabeticalSequence(lines, currentIndex, baseChar[1], indent)
    ELSE IF Test(ReDigits, baseChar)
    THEN verifyNumericalSequence(lines, currentIndex, ParseInt(baseChar), indent)
    ELSE FALSE

hasSequentialMarkers(lines, currentIndex, marker, indent) ==
    SequenceOf(lines, currentIndex, StripCloser(marker), indent)

\* currentLine.substring(currentLine.indexOf(marker) + marker.length).trim()
ContentAfter(line, marker) ==
    Trim(SubSeq(line, MinOf(Hits(Lit(marker), line)) + Len(marker), Len(line)))

\* the name test without its first pattern
LooksLikeNameInitialOnly(content) == Test(ReNameInitial, content)

\* the name test of the classifier
LooksLikeName(content) == Test(ReNameTwoWords, content) \/ Test(ReNameInitial, content)

\* the decisions of isActualListItem for the line's content and context
Classified(lines, currentIndex, marker, indent, content, listContext) ==
    IF Test(ReUnorderedMarker, marker) THEN TRUE
    ELSE IF LooksLikeName(content) THEN FALSE
    ELSE IF listContext.hasContext THEN TRUE
    ELSE IF /\ Test(ReSingleMarker, marker)
            /\ hasSequentialMarkers(lines, currentIndex, marker, indent)
         THEN TRUE
    ELSE IF /\ Test(ReSingleMarker, marker)
            /\ Test(ReCapitalised, content)
            /\ (\E k \in 1..Len(content) : content[k] = " ") \/ Len(content) < ShortContent
         THEN FALSE
    ELSE listContext.nearbyItems >= 2

isActualListItem(lines, currentIndex, marker, indent) ==
    Classified(lines, currentIndex, marker, indent,
               ContentAfter(lines[currentIndex], marker),
               checkListContext(lines, currentIndex, marker, indent))

(***************************************************************************)
(* adjustListStack and closeAllLists.  A walk state is [stack, result]:    *)
(* the open list contexts, bottom first, and the lines emitted so far.     *)
(***************************************************************************)
\* the closing tags of stack[from..Len(stack)], bottom first
ClosingTagsBottomFirst(stack, from) ==
    [k \in 1..(Len(stack) - from + 1) |-> ListClose(stack[from + k - 1].type)]

\* the closing tags of stack[from..Len(stack)], top first
ClosingTags(stack, from) ==
    [k \in 1..(Len(stack) - from + 1) |-> ListClose(stack[Len(stack) - k + 1].type)]

\* one pop and one closing tag instead of the loop
closeInnermostList(w) ==
    IF w.stack = <<>> THEN w
    ELSE [stack |-> SubSeq(w.stack, 1, Len(w.stack) - 1),
          result |-> Append(w.result, ListClose(w.stack[Len(w.stack)].type))]

closeAllLists(w) ==
    [stack |-> <<>>, result |-> w.result \o ClosingTags(w.stack, 1)]

\* while (listStack.length > targetLevel) pop and close
CloseDeeper(w, targetLevel) ==
    IF Len(w.stack) > targetLevel
    THEN [stack |-> SubSeq(w.stack, 1, targetLevel),
          result |-> w.result \o ClosingTags(w.stack, targetLevel + 1)]
    ELSE w
\* the opening loop with newType = listType for every list it opens
OpenUpToSameType(w, targetLevel, listType) ==
    [stack |-> w.stack
               \o [k \in 1..(targetLevel - Len(w.stack)) |->
                      [type |-> listType, level |-> Len(w.stack) + k - 1]],
     result |-> w.result
                \o [k \in 1..(targetLevel - Len(w.stack)) |-> ListOpen(listType)]]
\* while (listStack.length < targetLevel) open; the last one opened takes
\* listType, the ones before it 'ul'
OpenUpTo(w, targetLevel, listType) ==
    [stack |-> w.stack
               \o [k \in 1..(targetLevel - Len(w.stack)) |->
                      [type |-> IF Len(w.stack) + k = targetLevel THEN listType ELSE "ul",
                       level |-> Len(w.stack) + k - 1]],
     result |-> w.result
                \o [k \in 1..(targetLevel - Len(w.stack)) |->
                       ListOpen(IF Len(w.stack) + k = targetLevel THEN listType ELSE "ul")]]
\* at the target level with another type: close and reopen
Retyped(w, targetLevel, listType) ==
    IF /\ Len(w.stack) = targetLevel
       /\ targetLevel > 0
       /\ w.stack[Len(w.stack)].type # listType
    THEN [stack |-> SubSeq(w.stack, 1, Len(w.stack) - 1)
                    \o <<[type |-> listType, level |-> targetLevel - 1]>>,
          result |-> w.result
                     \o <<ListClose(w.stack[Len(w.stack)].type), ListOpen(listType)>>]
    ELSE w
\* nothing open: open the first list
OpenFirst(w, listType) ==
    IF Len(w.stack) = 0
    THEN [stack |-> <<[type |-> listType, level |-> 0]>>,
          result |-> w.result \o <<ListOpen(listType)>>]
    ELSE w

adjustListStack(w, targetLevel, listType) ==
    OpenFirst(Retyped(OpenUpTo(CloseDeeper(w, targetLevel), targetLevel, listType),
                      targetLevel, listType),
              listType)

(***************************************************************************)
(* processLists: one turn of the loop over the lines                       *)
(***************************************************************************)

\* `<li>${formattedContent}</li>`
ListItem(taskCheckbox, content) ==
    Chars("<li>")
    \o (IF taskCheckbox # <<>>
        THEN Chars("<input type=\"checkbox\" ")
             \o (IF \E k \in 1..Len(taskCheckbox) : taskCheckbox[k] = "x"
                 THEN Chars("checked") ELSE <<>>)
             \o Chars(" disabled> ") \o content
        ELSE content)
    \o Chars("</li>")

\* the line lines[i] matches the grammar and the classifier accepts it
Accepted(lines, i) ==
    \E listMatch \in {MatchOf(ReListLine, lines[i])} :
        /\ listMatch.st # 0
        /\ isActualListItem(lines, i, Cap(lines[i], listMatch, 2),
                            Len(Cap(lines[i], listMatch, 1)))

ListTypeOf(marker) == IF Test(ReOrderedMarker, marker) THEN "ol" ELSE "ul"

\* the walk state with one more line emitted
Push(w, line) == [w EXCEPT !.result = @ \o <<line>>]

\* the branch of the loop body for a line that matches the grammar
WalkMatched(lines, i, indentLevels, w, indent, marker, taskCheckbox, content) ==
    IF ~isActualListItem(lines, i, marker, indent)
    THEN Push(closeAllLists(w), lines[i])
    ELSE Push(adjustListStack(w, calculateNestingLevel(indent, indentLevels),
                              ListTypeOf(marker)),
              ListItem(taskCheckbox, content))

\* the body of the for loop for the line lines[i] and its listMatch
WalkWith(lines, i, indentLevels, w, listMatch) ==
    IF listMatch.st # 0
    THEN WalkMatched(lines, i, indentLevels, w,
                     Len(Cap(lines[i], listMatch, 1)), Cap(lines[i], listMatch, 2),
                     Cap(lines[i], listMatch, 3), Cap(lines[i], listMatch, 4))
    ELSE IF Trim(lines[i]) # <<>>
         THEN Push(closeAllLists(w), lines[i])
         ELSE Push(w, lines[i])

WalkLine(lines, i, indentLevels, w) ==
    WalkWith(lines, i, indentLevels, w, MatchOf(ReListLine, lines[i]))

(***************************************************************************)
(* processParagraphs                                                       *)
(***************************************************************************)
\* the two cases of a character under the i flag
CaseSet(ch) ==
    IF ch \in Letter THEN {LowerSeq[LetterRank(ch) + 1], UpperSeq[LetterRank(ch) + 1]}
    ELSE {ch}
\* a literal under the i flag
LitI(x) == Cat([k \in 1..Len(x) |-> In(CaseSet(x[k]))])
\* h[1-6] under the i flag
HeadingName == Cat(<<In({"h", "H"}), In({"1", "2", "3", "4", "5", "6"})>>)

\* /\n\s*\n/
ReBlankLine == Cat(<<In({"\n"}), Star(Sp), In({"\n"})>>)
\* /^(\s*<h[1-6][^>]*>[\s\S]*?<\/h[1-6]>)\s*([\s\S]+)$/i
ReHeaderWithText ==
    Cat(<<Bol(FALSE),
          Grp(1, Cat(<<Star(Sp), In({"<"}), HeadingName, Star(NotIn({">"})), In({">"}),
                       LazyStar(AnyCh), Lit(<<"<", "/">>), HeadingName, In({">"})>>)),
          Star(Sp), Grp(2, Plus(AnyCh)), Eol(FALSE)>>)
\* /^<(h[1-6]|ul|ol|blockquote|pre|hr|div)/i
ReBlockStart ==
    Cat(<<Bol(FALSE), In({"<"}),
          Grp(1, Alt(<<HeadingName, LitI(<<"u", "l">>), LitI(<<"o", "l">>),
                       LitI(<<"b", "l", "o", "c", "k", "q", "u", "o", "t", "e">>),
                       LitI(<<"p", "r", "e">>), LitI(<<"h", "r">>),
                       LitI(<<"d", "i", "v">>)>>))>>)
\* /(<\/h[1-6]>|<\/ul>|<\/ol>|<\/blockquote>|<\/pre>|<hr>|<\/div>)$/i
ReBlockEnd ==
    Cat(<<Grp(1, Alt(<<Cat(<<Lit(<<"<", "/">>), HeadingName, In({">"})>>),
                       LitI(ListClose("ul")), LitI(ListClose("ol")),
                       LitI(Chars("</blockquote>")), LitI(Chars("</pre>")), LitI(Chars("<hr>")),
                       LitI(<<"<", "/", "d", "i", "v", ">">>)>>)),
          Eol(FALSE)>>)

\* String.prototype.split(re)
SplitBy(ms, text) ==
    [k \in 1..(Len(ms) + 1) |->
        SubSeq(text, IF k = 1 THEN 1 ELSE ms[k - 1].e,
               IF k > Len(ms) THEN Len(text) ELSE ms[k].st - 1)]
SplitAt(re, text) == SplitBy(Global(re, text), text)

\* the test that keeps a block out of a paragraph
IsBlockLevel(block) == Test(ReBlockStart, block) \/ Test(ReBlockEnd, block)

\* `<p>${block}</p>` after block.replace(/\n/g, '<br>')
Paragraph(block) ==
    Chars("<p>") \o ReplaceWith(In({"\n"}), block, Chars("<br>")) \o Chars("</p>")

\* what is pushed for a block, or for the text after a header: the block as
\* it is when it is block-level, or a paragraph
Wrapped(block) == IF IsBlockLevel(block) THEN <<block>> ELSE <<Paragraph(block)>>
\* what is pushed for the trimmed text after a header
AfterHeader(after) == IF after = <<>> THEN <<>> ELSE Wrapped(after)

\* what the loop pushes for one trimmed, non-empty block and its
\* headerWithText match
PushedWith(block, headerWithText) ==
    IF headerWithText.st # 0
    THEN <<Cap(block, headerWithText, 1)>>
         \o AfterHeader(Trim(Cap(block, headerWithText, 2)))
    ELSE Wrapped(block)
PushedFor(block) == PushedWith(block, MatchOf(ReHeaderWithText, block))

\* the loop over the blocks
ProcessedBlocks(blocks) ==
    Flatten([k \in 1..Len(blocks) |->
                IF Trim(blocks[k]) = <<>> THEN <<>> ELSE PushedFor(Trim(blocks[k]))])

processParagraphs(text) == JoinLines(ProcessedBlocks(SplitAt(ReBlankLine, text)))

(***************************************************************************)
(* finalCleanup                                                            *)
(***************************************************************************)
\* <br\s*\/?> under the i flag
BrTag == Cat(<<LitI(<<"<", "b", "r">>), Star(Sp), Opt(In({"/"})), In({">"})>>)
\* /<\/(h[1-6])>\s*<br\s*\/?>\s*/gi
ReBreakAfterHeading ==
    Cat(<<Lit(<<"<", "/">>), Grp(1, HeadingName), In({">"}), Star(Sp), BrTag, Star(Sp)>>)
\* /<p>\s*<\/p>/g
ReEmptyParagraph == Cat(<<Lit(Chars("<p>")), Star(Sp), Lit(Chars("</p>"))>>)
\* /<p>(?:\s|&nbsp;|<br\s*\/?>)*<\/p>/gi
ReBlankParagraph ==
    Cat(<<LitI(Chars("<p>")),
          Star(Alt(<<Sp, LitI(<<"&", "n", "b", "s", "p", ";">>), BrTag>>)),
          LitI(Chars("</p>"))>>)
\* ul|ol|li|\/ul|\/ol|\/li
ListTagName ==
    Alt(<<Lit(<<"u", "l">>), Lit(<<"o", "l">>), Lit(<<"l", "i">>), Lit(<<"/", "u", "l">>),
          Lit(<<"/", "o", "l">>), Lit(<<"/", "l", "i">>)>>)
\* /<br>\s*<(ul|ol|li|\/ul|\/ol|\/li)>/g
ReBreakBeforeList ==
    Cat(<<Lit(Chars("<br>")), Star(Sp), In({"<"}), Grp(1, ListTagName), In({">"})>>)
\* /<(ul|ol|li|\/ul|\/ol|\/li)>\s*<br>/g
ReBreakAfterList ==
    Cat(<<In({"<"}), Grp(1, ListTagName), In({">"}), Star(Sp), Lit(Chars("<br>"))>>)
\* /\n\s*\n\s*\n/g
ReBlankLines == Cat(<<In({"\n"}), Star(Sp), In({"\n"}), Star(Sp), In({"\n"})>>)
\* />\s*\n\s*</g
ReBetweenTags == Cat(<<In({">"}), Star(Sp), In({"\n"}), Star(Sp), In({"<"})>>)

\* .map(line => line.trim()).filter(line => line !== '')
SolidLines(lines) ==
    Flatten([k \in 1..Len(lines) |->
                IF Trim(lines[k]) = <<>> THEN <<>> ELSE <<Trim(lines[k])>>])
\* .split('\n') ... .join('\n')
TrimmedLines(text) == JoinLines(SolidLines(SplitLines(text)))

finalCleanup(html) ==
    LET h1 == ReplaceCap(ReBreakAfterHeading, html, 1, <<"<", "/">>, <<">">>)
        h2 == ReplaceWith(ReEmptyParagraph, h1, <<>>)
        h3 == ReplaceWith(ReBlankParagraph, h2, <<>>)
        h4 == ReplaceCap(ReBreakBeforeList, h3, 1, <<"<">>, <<">">>)
        h5 == ReplaceCap(ReBreakAfterList, h4, 1, <<"<">>, <<">">>)
        h6 == ReplaceWith(ReBlankLines, h5, <<"\n", "\n">>)
        h7 == ReplaceWith(ReBetweenTags, h6, <<">", "<">>)
    IN  TrimmedLines(h7)

(***************************************************************************)
(* Documents                                                               *)
(***************************************************************************)
\* how many pieces a document is put together from
MaxPieces == 3

\* pieces of list documents
ListPieces ==
    <<Chars("a. First\n"), Chars("b. Second\n"), Chars("c. Third"),
      Chars("B. Spielberger directed the film."), Chars("\n\n\n"),
      Chars("  - b\n"), Chars("    1. John Smith\n")>>
\* pieces of documents of headings, paragraphs and rules
BlockPieces ==
    <<Chars("text\n"), Chars("# T\n"), Chars("\n"), Chars("---"), Chars("***"),
      Chars("___")>>
\* pieces of documents with code spans, fences and key-shaped text
CodePieces ==
    <<Chars("x "), <<BackTick>> \o Chars("<b>") \o <<BackTick>>, Chars(" y"),
      Chars("**"), Chars("**__INLINE_CODE_0__ "),
      <<BackTick, BackTick, BackTick>> \o Chars("\n* not a list *\n")
          \o <<BackTick, BackTick, BackTick>>>>
\* pieces of documents with raw HTML
HtmlPieces ==
    <<Chars("<p>"), Chars("</p>"), Chars("<p></p>"), Chars("<br>"), Chars("&nbsp;")>>

\* pieces of documents with nested lists, parenthesised numerals and a list
\* that starts at 0
NestPieces ==
    <<Chars("- a\n  - m\n"), Chars("  1. d\n"), Chars("    1. c\n"), Chars("\ntext\n"),
      Chars("(1) x\n(2) y\n"), Chars("0. x\n")>>
\* in bold, a fence that holds a blank line and an indented line
FencePieces ==
    <<Chars("**") \o <<BackTick, BackTick, BackTick>> \o Chars("\na\n\n  b\n")
          \o <<BackTick, BackTick, BackTick>> \o Chars("**")>>

\* the documents put together from at most MaxPieces pieces of one pool
Texts(pool) ==
    {Flatten([k \in DOMAIN choice |-> pool[choice[k]]]) :
        choice \in UNION {[1..n -> DOMAIN pool] : n \in 1..MaxPieces}}
Documents ==
    Texts(ListPieces) \cup Texts(BlockPieces) \cup Texts(CodePieces) \cup Texts(HtmlPieces)
    \cup Texts(NestPieces) \cup Texts(FencePieces)

(***************************************************************************)
(* convertMarkdownToHTML as a state machine: one step per pass, the list   *)
(* pass one step per line                                                  *)
(***************************************************************************)
VARIABLES markdown, html, codeBlocks, inlineCode, lines, lineNo, indentLevels,
          listStack, result, pc, failed

\* the page of src/app.js: the text of the fileName element, what the
\* renderedContent element shows, where tryAutoLoad stands, how many reads
\* of each chosen file are under way, and how many files the user has chosen
VARIABLES fileName, renderedContent, autoLoad, reading, selections

vars == <<markdown, html, codeBlocks, inlineCode, lines, lineNo, indentLevels,
          listStack, result, pc, failed,
          fileName, renderedContent, autoLoad, reading, selections>>
walk == <<lines, lineNo, indentLevels, listStack, result>>
conversion == <<markdown, html, codeBlocks, inlineCode, walk, pc, failed>>
page == <<fileName, renderedContent, autoLoad, reading, selections>>

NoLevels == [w \in {} |-> 0]

\* const possibleFileNames = [...]
possibleFileNames ==
    <<"[document_to_display_name].txt", "example.txt", "critical.txt", "sample.txt">>
\* the files the user can choose or drop
UserFiles ==
    {[name |-> "notes.md", type |-> "text/markdown"],
     [name |-> "TODO.TXT", type |-> ""],
     [name |-> "photo.png", type |-> "image/png"]}
\* how many files the user chooses or drops
MaxSelections == 3

\* what renderedContent shows: one of the panels, or the HTML converted from
\* the content of a source
NoSource == [by |-> "nobody", name |-> ""]
Panel(which) == [panel |-> which, of |-> NoSource]
Rendered(source) == [panel |-> "content", of |-> source]
AutoFile(index) == [by |-> "auto", name |-> possibleFileNames[index]]
UserFile(file) == [by |-> "user", name |-> file.name]
\* the page as index.html delivers it
Untouched == <<"untouched">>
\* where tryAutoLoad stands: at one of its two awaits, or returned
Awaiting(what, index) == [at |-> what, index |-> index]
AutoLoadReturned == [at |-> "returned", index |-> 0]

\* the page when the constructor has returned: the listeners are set and
\* tryAutoLoad waits for its first fetch
AfterConstruction ==
    /\ fileName = Untouched
    /\ renderedContent = Panel("untouched")
    /\ autoLoad = Awaiting("fetch", 1)
    /\ reading = [file \in UserFiles |-> 0]
    /\ selections = 0

Init ==
    /\ AfterConstruction
    /\ markdown \in Documents
    /\ html = markdown
    /\ codeBlocks = <<>>
    /\ inlineCode = <<>>
    /\ lines = <<>>
    /\ lineNo = 0
    /\ indentLevels = NoLevels
    /\ listStack = <<>>
    /\ result = <<>>
    /\ pc = "normalize"
    /\ failed = FALSE

\* a pass that rewrites the buffer and nothing else
Pass(at, text, then) ==
    /\ pc = at
    /\ html' = text
    /\ pc' = then
    /\ UNCHANGED <<markdown, codeBlocks, inlineCode, walk, failed, page>>

Normalize == Pass("normalize", normalizeContent(html), "protect")

Protect ==
    /\ pc = "protect"
    /\ \E protected \in {protectCodeBlocks(html)} :
          /\ html' = protected.text
          /\ codeBlocks' = protected.codeBlocks
          /\ inlineCode' = protected.inlineCode
    /\ pc' = "headers"
    /\ UNCHANGED <<markdown, walk, failed, page>>

Headers == Pass("headers", processHeaders(html), "formatting")

TextFormatting == Pass("formatting", processTextFormatting(html), "blockquotes")

Blockquotes == Pass("blockquotes", processBlockquotes(html), "lists")

\* processLists up to the loop
ListsBegin ==
    /\ pc = "lists"
    /\ lines' = SplitLines(html)
    /\ result' = <<>>
    /\ listStack' = <<>>
    /\ indentLevels' = analyzeIndentationLevels(SplitLines(html))
    /\ lineNo' = 1
    /\ pc' = "walk"
    /\ UNCHANGED <<markdown, html, codeBlocks, inlineCode, failed, page>>

\* one turn of the loop
ListLine ==
    /\ pc = "walk"
    /\ lineNo <= Len(lines)
    /\ \E w \in {WalkLine(lines, lineNo, indentLevels,
                           [stack |-> listStack, result |-> result])} :
          /\ listStack' = w.stack
          /\ result' = w.result
    /\ lineNo' = lineNo + 1
    /\ UNCHANGED <<markdown, html, codeBlocks, inlineCode, lines, indentLevels, pc, failed,
                   page>>

\* processLists after the loop
ListsEnd ==
    /\ pc = "walk"
    /\ lineNo > Len(lines)
    /\ \E w \in {closeAllLists([stack |-> listStack, result |-> result])} :
          /\ listStack' = w.stack
          /\ result' = w.result
          /\ html' = JoinLines(w.result)
    /\ pc' = "rules"
    /\ UNCHANGED <<markdown, codeBlocks, inlineCode, lines, lineNo, indentLevels, failed,
                   page>>

HorizontalRules == Pass("rules", processHorizontalRules(html), "links")

LinksAndImages == Pass("links", processLinksAndImages(html), "restore")

Restore == Pass("restore", restoreCodeBlocks(html, codeBlocks, inlineCode), "paragraphs")

Paragraphs == Pass("paragraphs", processParagraphs(html), "cleanup")

Cleanup == Pass("cleanup", finalCleanup(html), "done")

\* `<p>Error rendering content. Raw content:</p><pre>${this.escapeHtml(markdown)}</pre>`
Fallback(raw) ==
    Chars("<p>Error rendering content. Raw content:</p><pre>") \o escapeHtml(raw)
    \o Chars("</pre>")

\* a pass throws and the buffer is returned as it stands
CatchKeepsBuffer ==
    /\ pc # "done"
    /\ failed' = TRUE
    /\ pc' = "done"
    /\ UNCHANGED <<markdown, html, codeBlocks, inlineCode, walk, page>>

\* a pass throws: the catch block builds the result from the raw input
Catch ==
    /\ pc # "done"
    /\ html' = Fallback(markdown)
    /\ failed' = TRUE
    /\ pc' = "done"
    /\ UNCHANGED <<markdown, codeBlocks, inlineCode, walk, page>>

Next ==
    \/ Normalize
    \/ Protect
    \/ Headers
    \/ TextFormatting
    \/ Blockquotes
    \/ ListsBegin
    \/ ListLine
    \/ ListsEnd
    \/ HorizontalRules
    \/ LinksAndImages
    \/ Restore
    \/ Paragraphs
    \/ Cleanup
    \/ Catch

Spec == Init /\ [][Next]_vars

(***************************************************************************)
(* src/app.js: the start-up auto-load and the user's file choices.  A step *)
(* is what runs between two awaits; convertMarkdownToHTML runs inside a    *)
(* step, and what it returns is recorded by the source of its input.       *)
(***************************************************************************)
\* name.toLowerCase()
ToLower(name) ==
    [k \in 1..Len(name) |->
        IF \E n \in 1..26 : UpperSeq[n] = name[k]
        THEN LowerSeq[CHOOSE n \in 1..26 : UpperSeq[n] = name[k]]
        ELSE name[k]]
EndsWith(name, suffix) ==
    /\ Len(name) >= Len(suffix)
    /\ SubSeq(name, Len(name) - Len(suffix) + 1, Len(name)) = suffix
isValidFileType(file) ==
    \/ \E type \in {Chars(".txt"), Chars(".md"), Chars(".markdown")} :
          EndsWith(ToLower(Chars(file.name)), type)
    \/ file.type = "text/plain"
    \/ file.type = "text/markdown"

InitApp ==
    /\ AfterConstruction
    /\ markdown = <<>>
    /\ html = <<>>
    /\ codeBlocks = <<>>
    /\ inlineCode = <<>>
    /\ lines = <<>>
    /\ lineNo = 0
    /\ indentLevels = NoLevels
    /\ listStack = <<>>
    /\ result = <<>>
    /\ pc = "idle"
    /\ failed = FALSE

\* the loop of tryAutoLoad goes on to the next name, or ends with the
\* instructions
NextProbe ==
    IF autoLoad.index < Len(possibleFileNames)
    THEN /\ autoLoad' = Awaiting("fetch", autoLoad.index + 1)
         /\ UNCHANGED renderedContent
    ELSE /\ autoLoad' = AutoLoadReturned
         /\ renderedContent' = Panel("instructions")

\* await fetch(fileName) settles: response.ok, or not ok or rejected
FetchSettles ==
    /\ autoLoad.at = "fetch"
    /\ \E ok \in BOOLEAN :
          IF ok
          THEN /\ autoLoad' = Awaiting("text", autoLoad.index)
               /\ UNCHANGED renderedContent
          ELSE NextProbe
    /\ UNCHANGED <<fileName, reading, selections, conversion>>

\* await response.text() settles: with the content, or rejected
TextSettles ==
    /\ autoLoad.at = "text"
    /\ \E ok \in BOOLEAN :
          IF ok
          THEN /\ fileName' = <<possibleFileNames[autoLoad.index], " (auto-loaded)">>
               /\ renderedContent' = Rendered(AutoFile(autoLoad.index))
               /\ autoLoad' = AutoLoadReturned
          ELSE NextProbe /\ UNCHANGED fileName
    /\ UNCHANGED <<reading, selections, conversion>>

\* processFile up to its await
ProcessFile(file) ==
    /\ selections < MaxSelections
    /\ selections' = selections + 1
    /\ IF ~isValidFileType(file)
       THEN /\ renderedContent' = Panel("error")
            /\ UNCHANGED <<fileName, reading>>
       ELSE /\ fileName' = <<file.name>>
            /\ renderedContent' = Panel("loading")
            /\ reading' = [reading EXCEPT ![file] = @ + 1]
    /\ UNCHANGED <<autoLoad, conversion>>

\* the change event of the file input, with a file
SelectFile == \E file \in UserFiles : ProcessFile(file)

\* the change event of the file input, without a file
SelectNothing ==
    /\ selections < MaxSelections
    /\ selections' = selections + 1
    /\ fileName' = <<"No file selected">>
    /\ renderedContent' = Panel("placeholder")
    /\ UNCHANGED <<autoLoad, reading, conversion>>

\* the drop event with at least one file
DropFile == \E file \in UserFiles : ProcessFile(file)

\* await this.readFile(file) settles for one of the reads under way: onload,
\* or onerror
ReadSettles ==
    /\ \E file \in UserFiles :
          /\ reading[file] > 0
          /\ reading' = [reading EXCEPT ![file] = @ - 1]
          /\ \E loaded \in BOOLEAN :
                renderedContent' = IF loaded THEN Rendered(UserFile(file)) ELSE Panel("error")
    /\ UNCHANGED <<fileName, autoLoad, selections, conversion>>

NextApp ==
    \/ FetchSettles
    \/ TextSettles
    \/ SelectFile
    \/ SelectNothing
    \/ DropFile
    \/ ReadSettles

SpecApp == InitApp /\ [][NextApp]_vars

(***************************************************************************)
(* Properties                                                              *)
(***************************************************************************)
Returned == pc = "done" /\ ~failed

\* where sub stands in s
Positions(sub, s) ==
    {p \in 1..(Len(s) - Len(sub) + 1) : SubSeq(s, p, p + Len(sub) - 1) = sub}
Occurs(sub, s) == Positions(sub, s) # {}

\* the renderings of the code spans and fences the input holds
InputCode ==
    LET found == protectCodeBlocks(markdown)
    IN  {found.codeBlocks[k] : k \in DOMAIN found.codeBlocks}
        \cup {found.inlineCode[k] : k \in DOMAIN found.inlineCode}

\* C1: every inline code span and every fenced block of the input stands in
\* the returned HTML as its stored rendering, <code>..</code> or
\* <pre><code>..</code></pre> around the escaped content.
C1_ProtectedCodeRoundTrips ==
    Returned => \A fragment \in InputCode : Occurs(fragment, html)

\* the walk's reading of line k: accepted, and at which depth and of which type
LevelOf(k) ==
    calculateNestingLevel(Len(Cap(lines[k], MatchOf(ReListLine, lines[k]), 1)),
                          indentLevels)
TypeOf(k) == ListTypeOf(Cap(lines[k], MatchOf(ReListLine, lines[k]), 2))
SameListAsBefore(k) ==
    /\ k >= 2
    /\ Accepted(lines, k - 1)
    /\ Accepted(lines, k)
    /\ LevelOf(k - 1) = LevelOf(k)
    /\ TypeOf(k - 1) = TypeOf(k)

\* a turn of the loop over the lines is taken
Turn == pc = "walk" /\ lineNo <= Len(lines) /\ lineNo' = lineNo + 1

\* C2: an accepted item that follows an accepted item of the same depth and
\* type goes into the container that is open: the turn of the loop pushes its
\* <li> and no list tag, and leaves the stack as it is.
C2_SameDepthItemsShareOneList ==
    [][(Turn /\ SameListAsBefore(lineNo))
       => (listStack' = listStack /\ Len(result') = Len(result) + 1)]_vars

\* C3: whenever a pass has failed, what is returned is the diagnostic
\* followed by the escaped raw input inside <pre>, whatever the buffer held.
C3_FailureReturnsFallback ==
    (pc = "done" /\ failed)
        => html = Fallback(markdown)

\* a failure after the buffer was rewritten, on an input that needs escaping
C3_Witness ==
    /\ pc = "done"
    /\ failed
    /\ Occurs(<<"<">>, markdown)
    /\ lineNo > 0
    /\ html # Chars("<p>Error rendering content. Raw content:</p><pre>") \o markdown
              \o Chars("</pre>")

\* what the walk reads on line k: whether it matches the marker grammar, and
\* its indent width, marker and trailing content
Reading(k) ==
    LET listMatch == MatchOf(ReListLine, lines[k])
        marker == Cap(lines[k], listMatch, 2)
    IN  [candidate |-> listMatch.st # 0,
         indent |-> Len(Cap(lines[k], listMatch, 1)),
         marker |-> marker,
         content |-> IF listMatch.st # 0 THEN ContentAfter(lines[k], marker) ELSE <<>>]
\* the line carries a number, letter or Roman marker
OrderedCandidate(r) == r.candidate /\ ~Test(ReUnorderedMarker, r.marker)
\* and its content is a capitalised word, whitespace and a capital, or one
\* capitalised word and a period
NameShaped(r) ==
    /\ OrderedCandidate(r)
    /\ Test(ReNameTwoWords, r.content) \/ Test(ReNameInitial, r.content)
\* line k carries a single letter other than a or A ahead of capitalised
\* content, and no line within checkRange lines of it carries a marker
LoneLetter(k, r) ==
    /\ OrderedCandidate(r)
    /\ Test(ReLetterMarker, r.marker)
    /\ LetterRank(r.marker[1]) > 0
    /\ Test(ReCapitalised, r.content)
    /\ \A j \in 1..Len(lines) :
          (j # k /\ Abs(j - k) <= checkRange) => ~Test(ReContextLine, lines[j])
\* every letter before line k's stands as a marker on an earlier line at an
\* indent within IndentTolerance columns
ChainBefore(k, r) ==
    \A rank \in 0..(LetterRank(r.marker[1]) - 1) :
        \E j \in 1..(k - 1) :
            /\ SimilarLine(lines, j, r.indent)
            /\ Test(ReLetterMarker, MarkerAt(lines, j))
            /\ LetterRank(MarkerAt(lines, j)[1]) = rank
\* the turn of the loop emits the line as it is
KeptAsText == Len(result') > 0 /\ result'[Len(result')] = lines[lineNo]

\* the lone sentence of the example, and what it must come out as
Spielberger == ListPieces[4]
SpielbergerStaysText ==
    (markdown = Spielberger /\ Returned) => html = Chars("<p>") \o Spielberger \o Chars("</p>")

\* C4: a line with a number, letter or Roman marker is emitted as text when
\* its content is name-shaped, and when it is a lone single letter other than
\* a with capitalised content and the letters before it do not all stand as
\* markers on earlier lines; the lone sentence of the example stays text.
C4_NamesAndLoneLettersStayText ==
    /\ [][Turn => \A r \in {Reading(lineNo)} :
                     (NameShaped(r) \/ (LoneLetter(lineNo, r) /\ ~ChainBefore(lineNo, r)))
                         => KeptAsText]_vars
    /\ []SpielbergerStaysText

\* a name-shaped line and a lone letter without its chain, both emitted as
\* they were
C4_Witness ==
    /\ pc = "walk"
    /\ lineNo > Len(lines)
    /\ result = lines
    /\ \E j \in 1..Len(lines) : NameShaped(Reading(j))
    /\ \E k \in 1..Len(lines) :
          LoneLetter(k, Reading(k)) /\ ~ChainBefore(k, Reading(k))

\* C4 as stated: the lone letter stays text whatever the earlier lines hold.
C4_AsStated ==
    /\ [][Turn => \A r \in {Reading(lineNo)} :
                     (NameShaped(r) \/ LoneLetter(lineNo, r)) => KeptAsText]_vars
    /\ []SpielbergerStaysText

\* the smallest and the largest of the places where sub stands in s
FirstOf(sub, s) == MinOf(Positions(sub, s))
HowMany(sub, s) == Cardinality(Positions(sub, s))

\* the input holds text shaped like the first inline key ahead of its first
\* code span, and that text and the placeholder both reach restoration
KeyTextAhead ==
    /\ inlineCode # <<>>
    /\ Occurs(InlineCodePlaceholder(0), markdown)
    /\ Occurs(<<BackTick>>, markdown)
    /\ FirstOf(InlineCodePlaceholder(0), markdown) < FirstOf(<<BackTick>>, markdown)
    /\ HowMany(InlineCodePlaceholder(0), html)
           = HowMany(InlineCodePlaceholder(0), markdown) + 1

\* C5: key-shaped text of the input is not replaced by a fragment: when it
\* stands ahead of the placeholder, restoration leaves it standing ahead of
\* the restored fragment.
C5_RestoredAtOwnPlaceholder ==
    [][(pc = "restore" /\ pc' = "paragraphs" /\ KeyTextAhead)
       => /\ Occurs(InlineCodePlaceholder(0), html')
          /\ Occurs(inlineCode[1], html')
          /\ FirstOf(InlineCodePlaceholder(0), html') < FirstOf(inlineCode[1], html')]_vars

\* the indent widths of the lines that match the marker grammar
UsedWidths == {Reading(k).indent : k \in {j \in 1..Len(lines) : Reading(j).candidate}}

\* C6: when the pre-scan has built the map, the smallest indent width a
\* marker line uses is mapped to depth 0, and over the widths marker lines use
\* the computed depth never falls as the width grows.
C6_DepthFollowsWidth ==
    (pc = "walk" /\ lineNo = 1)
        => \A used \in {UsedWidths} :
              /\ \A least \in used :
                    (\A a \in used : least <= a)
                        => least \in DOMAIN indentLevels /\ indentLevels[least] = 0
              /\ \A a, b \in used :
                    a <= b => calculateNestingLevel(a, indentLevels)
                                  <= calculateNestingLevel(b, indentLevels)

\* a document whose marker lines use three widths
C6_Witness ==
    /\ pc = "walk"
    /\ \E used \in {UsedWidths} :
          /\ Cardinality(used) >= 3
          /\ \E a \in used : calculateNestingLevel(a, indentLevels) = 2

\* the tags that open a block-level element
PreOpen == SubSeq(Chars("<pre><code>"), 1, 5)
BlockOpeners ==
    {HOpen(n) : n \in 1..6}
    \cup {ListOpen("ul"), ListOpen("ol"), Chars("<blockquote>"), PreOpen, Chars("<hr>")}
\* where the paragraph opened at p ends: at its closing tag, else with the text
ParagraphEnd(p, text) ==
    LET closes == {q \in Positions(Chars("</p>"), text) : q > p}
    IN  IF closes = {} THEN Len(text) + 1 ELSE MinOf(closes)

\* C7: in the returned HTML of a document without code no heading, list,
\* blockquote, preformatted block or rule stands between a <p> and its </p>.
C7_NoBlockInsideParagraph ==
    (Returned /\ ~Occurs(<<BackTick>>, markdown))
        => \A p \in Positions(Chars("<p>"), html), tag \in BlockOpeners :
              \A q \in Positions(tag, html) : ~(p < q /\ q < ParagraphEnd(p, html))

\* <p>, nothing but whitespace, <br> and &nbsp;, </p>
ReNothingInParagraph ==
    Cat(<<Lit(Chars("<p>")), Star(Alt(<<Sp, Lit(Chars("<br>")), Lit(Chars("&nbsp;"))>>)),
          Lit(Chars("</p>"))>>)

\* C8: the returned HTML holds no paragraph that is empty or holds only
\* whitespace, line breaks or no-break spaces.
C8_NoEmptyParagraph == Returned => ~Test(ReNothingInParagraph, html)

\* a line of three or more of one of the rule characters and nothing else
RuleLine(line) ==
    /\ Len(line) >= 3
    /\ \E ch \in {"-", "*", "_"} : \A j \in 1..Len(line) : line[j] = ch
\* line k is the first line or follows a blank line
Alone(ls, k) == k = 1 \/ Trim(ls[k - 1]) = <<>>
\* the input holds no code, and each of these lines of it stands alone
PlainWithAlone(ls, which) ==
    /\ ~Occurs(<<BackTick>>, markdown)
    /\ \A k \in which : Alone(ls, k)

\* C9: every line made of three or more -, * or _ comes out as a rule: the
\* returned HTML of a document without code whose rule lines stand alone
\* holds an <hr> for each of them.
C9_EveryRuleLineIsARule ==
    Returned
        => \A ls \in {SplitLines(markdown)} :
              \A rules \in {{k \in 1..Len(ls) : RuleLine(ls[k])}} :
                  PlainWithAlone(ls, rules)
                      => HowMany(Chars("<hr>"), html) >= Cardinality(rules)

\* C10: a --- line that is the first line or follows a blank line comes out
\* as a rule and promotes nothing to a heading: the returned HTML of a
\* document without code and without # whose --- lines stand alone holds an
\* <hr> for each of them and no heading.
C10_StandaloneDashesAreARule ==
    (Returned /\ ~Occurs(<<"#">>, markdown))
        => \A ls \in {SplitLines(markdown)} :
              \A dashes \in {{k \in 1..Len(ls) : ls[k] = Chars("---")}} :
                  PlainWithAlone(ls, dashes)
                      => /\ HowMany(Chars("<hr>"), html) >= Cardinality(dashes)
                         /\ \A n \in 1..6 : ~Occurs(HOpen(n), html)

\* the turn of the loop reads an accepted item
ItemTurn == Turn /\ Accepted(lines, lineNo)
\* the accepted item on line k lies deeper than an accepted item just before it
DeeperThanBefore(k) ==
    /\ k >= 2
    /\ Accepted(lines, k - 1)
    /\ LevelOf(k) > LevelOf(k - 1)

\* C11: when the stack has been reconciled for an accepted item of depth d,
\* d + 1 contexts are open and they carry the depths 0..d from the bottom up;
\* an item deeper than the accepted item before it gets a new container on
\* top of the ones that were open, which stay open.
C11_OneContextPerDepth ==
    [][ItemTurn
       => /\ Len(listStack') = LevelOf(lineNo) + 1
          /\ \A k \in 1..Len(listStack') : listStack'[k].level = k - 1
          /\ DeeperThanBefore(lineNo)
                 => /\ Len(listStack') > Len(listStack)
                    /\ SubSeq(listStack', 1, Len(listStack)) = listStack]_vars

\* the first k elements of s are those of prefix
StartsWith(s, prefix) == Len(s) >= Len(prefix) /\ SubSeq(s, 1, Len(prefix)) = prefix

\* C12: when the stack has been reconciled for an accepted item of type t,
\* the innermost open context has type t and the <li> is what the turn emits
\* last; the contexts the turn opened below the innermost one are unordered.
C12_InnermostHasItemType ==
    [][ItemTurn
       => /\ listStack' # <<>>
          /\ listStack'[Len(listStack')].type = TypeOf(lineNo)
          /\ StartsWith(result'[Len(result')], Chars("<li>"))
          /\ \A k \in (Len(listStack) + 1)..(Len(listStack') - 1) :
                 listStack'[k].type = "ul"]_vars

\* an ordered item two levels down has just been emitted with nothing open
\* before it: an unordered list was opened for the level in between
C12_Witness ==
    /\ pc = "walk"
    /\ lineNo = 2
    /\ Accepted(lines, 1)
    /\ TypeOf(1) = "ol"
    /\ LevelOf(1) = 2
    /\ Len(listStack) = 2
    /\ listStack[1].type = "ul"
    /\ listStack[2].type = "ol"
    /\ result = <<ListOpen("ul"), ListOpen("ol"), Chars("<li>c</li>")>>

\* the turn of the loop emits the closing tags of all open contexts, the
\* innermost first, then the line as it is, and leaves nothing open
ClosesAllThenKeeps ==
    /\ listStack' = <<>>
    /\ Len(result') = Len(result) + Len(listStack) + 1
    /\ SubSeq(result', 1, Len(result)) = result
    /\ \A k \in 1..Len(listStack) :
          result'[Len(result) + k] = ListClose(listStack[Len(listStack) - k + 1].type)
    /\ result'[Len(result')] = lines[lineNo]

\* C13: in the walk a blank line leaves the stack as it is and is emitted
\* without any list tag; a non-blank line that is not an accepted item (it
\* does not match the marker grammar, or the classifier rejects it) closes
\* every open context, the innermost first, and is then emitted as it is.
C13_OnlyTextClosesTheStack ==
    [][Turn
       => /\ Trim(lines[lineNo]) = <<>>
                => listStack' = listStack /\ result' = Append(result, lines[lineNo])
          /\ (Trim(lines[lineNo]) # <<>> /\ ~Accepted(lines, lineNo))
                => ClosesAllThenKeeps]_vars

\* a blank line went by with two lists open, and the text line after it has
\* closed the ordered list and then the unordered one
C13_Witness ==
    /\ pc = "walk"
    /\ listStack = <<>>
    /\ Len(result) >= 6
    /\ SubSeq(result, Len(result) - 5, Len(result))
           = <<ListOpen("ol"), Chars("<li>c</li>"), <<>>, ListClose("ol"),
               ListClose("ul"), Chars("text")>>

\* the containers open after one more emitted line, bottom first; Unbalanced
\* when the line closes a container that is not the innermost open one, or
\* is an <li> with nothing open
Unbalanced == <<"unbalanced">>
OpenWith(open, line) ==
    IF open = Unbalanced THEN Unbalanced
    ELSE IF line \in {ListOpen("ul"), ListOpen("ol")}
    THEN Append(open, IF line = ListOpen("ul") THEN "ul" ELSE "ol")
    ELSE IF line \in {ListClose("ul"), ListClose("ol")}
    THEN IF open # <<>> /\ line = ListClose(open[Len(open)])
         THEN SubSeq(open, 1, Len(open) - 1)
         ELSE Unbalanced
    ELSE IF StartsWith(line, Chars("<li>")) /\ open = <<>> THEN Unbalanced
    ELSE open
RECURSIVE OpenAfter(_)
\* the containers open after the emitted lines
OpenAfter(emitted) ==
    IF emitted = <<>> THEN <<>>
    ELSE OpenWith(OpenAfter(SubSeq(emitted, 1, Len(emitted) - 1)), emitted[Len(emitted)])

\* C14: the list tags processLists emits are balanced and well nested: at
\* every point of the walk the containers the emitted tags leave open are the
\* contexts of the stack, each closing tag closes the innermost open
\* container, no <li> is emitted with nothing open, and when processLists
\* has returned the stack is empty and every container is closed.
C14_ListTagsBalanced ==
    /\ pc = "walk"
          => OpenAfter(result) = [k \in 1..Len(listStack) |-> listStack[k].type]
    /\ pc = "rules"
          => /\ listStack = <<>>
             /\ OpenAfter(result) = <<>>
             /\ html = JoinLines(result)

\* processLists has returned text in which a list was open inside a list
C14_Witness ==
    /\ pc = "rules"
    /\ \E n \in 1..Len(result) : Len(OpenAfter(SubSeq(result, 1, n))) = 2
    /\ \E n \in 1..Len(result) : result[n] = ListClose("ol")

\* the formats of the marker grammar: bullet, arabic ordinal with a closer,
\* parenthesised numeral, single letter, Roman numeral
FormatOf(marker) ==
    IF Test(ReUnorderedMarker, marker) THEN "bullet"
    ELSE IF Test(ReNumberMarker, marker) THEN "arabic"
    ELSE IF marker[1] = "(" THEN "parenthesised"
    ELSE IF Test(ReLetterMarker, marker) THEN "letter"
    ELSE "roman"
\* another line within checkRange lines of line k matches the marker grammar
\* at an indent within IndentTolerance columns and carries a marker of the
\* same format
Corroborated(k, r) ==
    \E j \in 1..Len(lines) :
        /\ j # k
        /\ Abs(j - k) <= checkRange
        /\ \E other \in {Reading(j)} :
              /\ other.candidate
              /\ Abs(other.indent - r.indent) <= IndentTolerance
              /\ FormatOf(other.marker) = FormatOf(r.marker)
\* the turn of the loop emits an <li>
EmitsItem == Len(result') > 0 /\ StartsWith(result'[Len(result')], Chars("<li>"))

\* C15: a line with an arabic, parenthesised, letter or Roman marker whose
\* content is not name-shaped becomes a list item whenever another marker
\* line within 3 lines of it, at an indent within 2 columns, carries a marker
\* of the same format.
C15_CorroboratedMarkerIsAccepted ==
    [][Turn => \A r \in {Reading(lineNo)} :
                  (OrderedCandidate(r) /\ ~NameShaped(r) /\ Corroborated(lineNo, r))
                      => EmitsItem]_vars

\* line k carries a single letter or digit ahead of content that is not
\* name-shaped, and no marker line near it carries a marker of its format
LoneSingle(k, r) ==
    /\ r.candidate
    /\ Test(ReSingleMarker, r.marker)
    /\ ~NameShaped(r)
    /\ ~Corroborated(k, r)
\* every integer from 1 up to one before line k's stands as a marker on an
\* earlier line at an indent within IndentTolerance columns
NumberChainBefore(k, r) ==
    \A n \in 1..(ParseInt(StripCloser(r.marker)) - 1) :
        \E j \in 1..(k - 1) :
            \E other \in {Reading(j)} :
                /\ other.candidate
                /\ Abs(other.indent - r.indent) <= IndentTolerance
                /\ Test(ReNumberMarker, other.marker)
                /\ ParseInt(StripCloser(other.marker)) = n
ChainComplete(k, r) ==
    IF Test(ReLetterMarker, r.marker) THEN ChainBefore(k, r) ELSE NumberChainBefore(k, r)

\* C16: for a line with a single letter or digit as its marker, content that
\* is not name-shaped and no related neighbour, the chain check answers yes
\* exactly when every letter from a, or every integer from 1, up to the one
\* before its marker stands as a marker on an earlier line at an indent
\* within 2 columns; for a, A and 1 it needs no earlier line.
C16_ChainCheckIsTheChain ==
    (pc = "walk" /\ lineNo = 1)
        => \A k \in 1..Len(lines) :
              \A r \in {Reading(k)} :
                  LoneSingle(k, r)
                      => (hasSequentialMarkers(lines, k, r.marker, r.indent)
                              <=> ChainComplete(k, r))

\* paragraph assembly or the final cleanup rewrites the buffer
LatePass ==
    \/ pc = "paragraphs" /\ pc' = "cleanup"
    \/ pc = "cleanup" /\ pc' = "done" /\ ~failed'

\* C17: paragraph assembly and the final cleanup leave a restored fenced
\* fragment as it is: a rendering <pre><code>..</code></pre> that stands in
\* the buffer before the pass stands in it after the pass, in one piece, with
\* its line breaks, blank lines and leading whitespace.
C17_LatePassesKeepFencedCode ==
    [][LatePass
       => \A k \in DOMAIN codeBlocks :
             Occurs(codeBlocks[k], html) => Occurs(codeBlocks[k], html')]_vars

\* how many recorded widths are smaller than this one
RankOf(width) == Cardinality({w \in DOMAIN indentLevels : w < width})

\* C19: in the walk the indent width of a line that matches the marker
\* grammar is a width the pre-scan recorded, and the depth computed for it is
\* the rank of the width among the recorded widths: the rule for a width
\* that was not recorded is not used.
C19_WalkWidthsAreRecorded ==
    (pc = "walk" /\ lineNo <= Len(lines))
        => \A r \in {Reading(lineNo)} :
              r.candidate
                  => /\ r.indent \in DOMAIN indentLevels
                     /\ calculateNestingLevel(r.indent, indentLevels) = RankOf(r.indent)

\* the walk reads an accepted ordered item at width 2, the second of the
\* recorded widths, where the rule for unrecorded widths would give depth 0
C19_Witness ==
    /\ pc = "walk"
    /\ lineNo <= Len(lines)
    /\ Accepted(lines, lineNo)
    /\ TypeOf(lineNo) = "ol"
    /\ Reading(lineNo).indent = 2
    /\ DOMAIN indentLevels = {0, 2}
    /\ LevelOf(lineNo) = 1

\* no load is under way
NothingPending ==
    /\ autoLoad = AutoLoadReturned
    /\ \A file \in UserFiles : reading[file] = 0
\* the text of the fileName element for the source of what is shown
NameOf(source) ==
    IF source.by = "auto" THEN <<source.name, " (auto-loaded)">> ELSE <<source.name>>
ShowsUserContent == renderedContent.panel = "content" /\ renderedContent.of.by = "user"

\* C18: when no load is under way any more, the file name shown is the name
\* of the source whose content is shown; and no step of the auto-load
\* replaces content that was rendered from a file the user chose.
C18_NameAndContentOfOneSource ==
    /\ [](NothingPending /\ renderedContent.panel = "content"
             => fileName = NameOf(renderedContent.of))
    /\ [][(autoLoad' # autoLoad /\ ShowsUserContent)
           => renderedContent' = renderedContent]_vars

====
